---------------------------- MODULE Spec2Model ----------------------------
(***************************************************************************)
(* A model of the CFO Copilot core: agent/agent.py (intent classifier and  *)
(* query orchestrator) and agent/tools.py (currency normalizer and the six *)
(* metric functions).                                                      *)
(*                                                                         *)
(* Representation.                                                         *)
(*  - A question is a sequence of words; the real string is the words      *)
(*    joined by single blanks.  Substring tests of the source are tests for *)
(*    a contiguous run of words, after lower-casing each word.             *)
(*  - A pandas DataFrame is a sequence of rows (records).  A row carries   *)
(*    the set na of the columns whose value is missing (NaN/None); a       *)
(*    missing cell holds a placeholder that no operator reads.             *)
(*  - A "YYYY-MM" month string is the pair <<year, month>>; the order of   *)
(*    zero-padded strings is the lexicographic order of the pairs.         *)
(*  - An account_category string is a sequence of string pieces, so that   *)
(*    str.startswith("Opex") is a real prefix test.                        *)
(*  - Amounts and rates are integers (a fixed-point unit).                 *)
(*  - A function that raises returns [raised |-> TRUE, ...].               *)
(*  - entity and account_category are never missing in the tables drawn.   *)
(***************************************************************************)
EXTENDS Integers, Sequences, FiniteSets, TLC

VARIABLES question, month, entity, actuals, budget, fx, cash, op, ret, called

vars == <<question, month, entity, actuals, budget, fx, cash, op, ret, called>>

(***************************************************************************)
(* Bounds of the model.                                                    *)
(***************************************************************************)
MaxWords == 3
MaxRows == 2
MaxFxRows == 3
MaxMonths == 4
MaxCashRows == 2
MaxBlocks == 2

(***************************************************************************)
(* Generic helpers.                                                        *)
(***************************************************************************)
SeqsUpTo(S, n) == UNION {[1..k -> S] : k \in 0..n}

RECURSIVE SumSeq(_)
SumSeq(s) == IF s = <<>> THEN 0 ELSE Head(s) + SumSeq(Tail(s))

Reverse(s) == [i \in 1..Len(s) |-> s[Len(s) + 1 - i]]

NoRet == [raised |-> FALSE, kind |-> "none"]

(***************************************************************************)
(* agent.py: classify_intent.                                              *)
(***************************************************************************)
Words ==
    {"revenue", "Revenue", "budget", "BUDGET", "gross", "Gross", "margin",
     "opex", "OPEX", "ebitda", "EBITDA", "cash", "Cash", "runway",
     "June", "june", "May", "2024", "0000", "profit"}

\* str.lower() on one word
lower_word(w) ==
    CASE w = "Revenue" -> "revenue"
      [] w = "BUDGET" -> "budget"
      [] w = "Gross" -> "gross"
      [] w = "OPEX" -> "opex"
      [] w = "EBITDA" -> "ebitda"
      [] w = "Cash" -> "cash"
      [] w = "June" -> "june"
      [] w = "May" -> "may"
      [] OTHER -> w

\* question.lower()
lower(text) == [i \in 1..Len(text) |-> lower_word(text[i])]

\* Python's  kw in q  on strings: kw occurs as a contiguous run
contains(q, kw) ==
    \E i \in 1..(Len(q) - Len(kw) + 1) : SubSeq(q, i, i + Len(kw) - 1) = kw

\* A faulty variant: rule 4 without its "budget" exclusion.
classify_intent_no_exclusion(text) ==
    LET q == lower(text) IN
    IF contains(q, <<"revenue">>) /\ contains(q, <<"budget">>)
    THEN "revenue_vs_budget"
    ELSE IF contains(q, <<"gross", "margin">>) THEN "gross_margin_trend"
    ELSE IF contains(q, <<"opex">>) THEN "opex_breakdown"
    ELSE IF contains(q, <<"ebitda">>) THEN "ebitda_trend"
    ELSE IF contains(q, <<"ebitda">>) /\ contains(q, <<"budget">>)
    THEN "ebitda_vs_budget"
    ELSE IF contains(q, <<"cash", "runway">>) THEN "cash_runway"
    ELSE "unknown"

classify_intent(text) ==
    LET q == lower(text) IN
    IF contains(q, <<"revenue">>) /\ contains(q, <<"budget">>)
    THEN "revenue_vs_budget"
    ELSE IF contains(q, <<"gross", "margin">>) THEN "gross_margin_trend"
    ELSE IF contains(q, <<"opex">>) THEN "opex_breakdown"
    ELSE IF contains(q, <<"ebitda">>) /\ ~contains(q, <<"budget">>)
    THEN "ebitda_trend"
    ELSE IF contains(q, <<"ebitda">>) /\ contains(q, <<"budget">>)
    THEN "ebitda_vs_budget"
    ELSE IF contains(q, <<"cash", "runway">>) THEN "cash_runway"
    ELSE "unknown"

InitClassify ==
    /\ question \in SeqsUpTo(Words, MaxWords)
    /\ month = <<0, 0>>
    /\ entity = "ParentCo"
    /\ actuals = <<>>
    /\ budget = <<>>
    /\ fx = <<>>
    /\ cash = [is_none |-> TRUE, rows |-> <<>>]
    /\ op = "init"
    /\ ret = NoRet
    /\ called = {}

ClassifyIntent ==
    /\ op = "init"
    /\ op' = "classify_intent"
    /\ ret' = [raised |-> FALSE, kind |-> "intent", intent |-> classify_intent(question)]
    /\ UNCHANGED <<question, month, entity, actuals, budget, fx, cash, called>>

NextClassify == ClassifyIntent

SpecClassify == InitClassify /\ [][NextClassify]_vars


(***************************************************************************)
(* The classifier's contract: an ordered list of rules, first match wins.  *)
(***************************************************************************)
Intents ==
    {"revenue_vs_budget", "gross_margin_trend", "opex_breakdown",
     "ebitda_trend", "ebitda_vs_budget", "cash_runway", "unknown"}

Rules ==
    << [all |-> {<<"revenue">>, <<"budget">>}, none |-> {}, intent |-> "revenue_vs_budget"],
       [all |-> {<<"gross", "margin">>}, none |-> {}, intent |-> "gross_margin_trend"],
       [all |-> {<<"opex">>}, none |-> {}, intent |-> "opex_breakdown"],
       [all |-> {<<"ebitda">>}, none |-> {<<"budget">>}, intent |-> "ebitda_trend"],
       [all |-> {<<"ebitda">>, <<"budget">>}, none |-> {}, intent |-> "ebitda_vs_budget"],
       [all |-> {<<"cash", "runway">>}, none |-> {}, intent |-> "cash_runway"] >>

\* kw occurs in text, comparing word by word without regard to case
OccursFolded(text, kw) ==
    \E i \in 1..Len(text) :
        /\ i + Len(kw) - 1 <= Len(text)
        /\ \A j \in 1..Len(kw) : lower_word(text[i + j - 1]) = kw[j]

RuleMatches(rule, text) ==
    /\ \A kw \in rule.all : OccursFolded(text, kw)
    /\ \A kw \in rule.none : ~OccursFolded(text, kw)

FirstMatch(text) ==
    LET hits == {i \in 1..Len(Rules) : RuleMatches(Rules[i], text)}
    IN  IF hits = {} THEN "unknown"
        ELSE Rules[CHOOSE i \in hits : \A j \in hits : i <= j].intent

\* C1: classify_intent returns exactly one intent, the intent of the first
\* rule of the ordered list that matches (case-insensitive substring
\* matching), unknown when none matches; a question with "ebitda" and
\* "budget" is never classified ebitda_trend.
C1_FirstRuleWins ==
    op = "classify_intent" =>
        /\ ret.intent \in Intents
        /\ ret.intent = FirstMatch(question)
        /\ (OccursFolded(question, <<"ebitda">>) /\ OccursFolded(question, <<"budget">>))
              => ret.intent # "ebitda_trend"

\* C1 witness: a mixed-case question with "ebitda" and "budget" that rules
\* 1-3 do not match has been classified ebitda_vs_budget.
C1_Witness ==
    /\ op = "classify_intent"
    /\ question = <<"EBITDA", "BUDGET">>
    /\ ret.intent = "ebitda_vs_budget"

(***************************************************************************)
(* tools.py: convert_to_usd.                                               *)
(***************************************************************************)
M1 == <<2024, 5>>
M2 == <<2024, 6>>

\* DataFrame.dropna(subset=...)
dropna(df, subset) == SelectSeq(df, LAMBDA r : r.na \cap subset = {})

\* A faulty variant: keep="last".
drop_duplicates_last(rows) ==
    LET keep == {i \in 1..Len(rows) :
                    ~\E j \in (i + 1)..Len(rows) :
                        /\ rows[j].month = rows[i].month
                        /\ rows[j].currency = rows[i].currency}
        F[i \in 0..Len(rows)] ==
            IF i = 0 THEN <<>>
            ELSE IF i \in keep THEN Append(F[i - 1], rows[i]) ELSE F[i - 1]
    IN  F[Len(rows)]

\* DataFrame.drop_duplicates(subset=["month", "currency"], keep="first")
drop_duplicates(rows) ==
    LET keep == {i \in 1..Len(rows) :
                    ~\E j \in 1..(i - 1) :
                        /\ rows[j].month = rows[i].month
                        /\ rows[j].currency = rows[i].currency}
        F[i \in 0..Len(rows)] ==
            IF i = 0 THEN <<>>
            ELSE IF i \in keep THEN Append(F[i - 1], rows[i]) ELSE F[i - 1]
    IN  F[Len(rows)]

\* one row of the left join: the record, the rate column added
joined(l, r) ==
    [month |-> l.month, entity |-> l.entity,
     account_category |-> l.account_category, amount |-> l.amount,
     currency |-> l.currency, rate_to_usd |-> r.rate_to_usd, na |-> l.na]

unmatched(l) ==
    [month |-> l.month, entity |-> l.entity,
     account_category |-> l.account_category, amount |-> l.amount,
     currency |-> l.currency, rate_to_usd |-> 0,
     na |-> l.na \cup {"rate_to_usd"}]

\* clean_df.merge(clean_fx, on=["month", "currency"], how="left"): the rows
\* of the left table in order, one output row per matching right row, and
\* one row with a missing rate when nothing matches.
RECURSIVE merge(_, _)
merge(left, right) ==
    IF left = <<>> THEN <<>>
    ELSE LET l == Head(left)
             m == SelectSeq(right, LAMBDA r : r.month = l.month /\ r.currency = l.currency)
         IN  (IF m = <<>> THEN <<unmatched(l)>>
              ELSE [i \in 1..Len(m) |-> joined(l, m[i])])
             \o merge(Tail(left), right)

\* merged["amount_usd"] = merged["amount"] * merged["rate_to_usd"]
with_amount_usd(rows) ==
    [i \in 1..Len(rows) |->
        LET r == rows[i]
            null == r.na \cap {"amount", "rate_to_usd"} # {}
        IN  [month |-> r.month, entity |-> r.entity,
             account_category |-> r.account_category, amount |-> r.amount,
             currency |-> r.currency, rate_to_usd |-> r.rate_to_usd,
             amount_usd |-> IF null THEN 0 ELSE r.amount * r.rate_to_usd,
             na |-> IF null THEN r.na \cup {"amount_usd"} ELSE r.na]]

\* A faulty variant: the rows without a rate are not dropped.
convert_to_usd_keep_unmatched(df, rates) ==
    LET clean_df == dropna(df, {"month", "currency", "amount"})
        clean_fx == drop_duplicates(dropna(rates, {"month", "currency", "rate_to_usd"}))
        merged == merge(clean_df, clean_fx)
    IN  [df |-> df, fx |-> rates, out |-> with_amount_usd(merged)]

\* A faulty variant: the result's columns are written back into df.
convert_to_usd_inplace(df, rates) ==
    LET clean_df == dropna(df, {"month", "currency", "amount"})
        clean_fx == drop_duplicates(dropna(rates, {"month", "currency", "rate_to_usd"}))
        merged == dropna(merge(clean_df, clean_fx), {"rate_to_usd"})
    IN  [df |-> with_amount_usd(merged), fx |-> rates, out |-> with_amount_usd(merged)]

\* convert_to_usd(df, fx): df and fx are the caller's two tables as the call
\* leaves them, out is the table returned.
convert_to_usd(df, rates) ==
    LET clean_df == dropna(df, {"month", "currency", "amount"})
        clean_fx == drop_duplicates(dropna(rates, {"month", "currency", "rate_to_usd"}))
        merged == dropna(merge(clean_df, clean_fx), {"rate_to_usd"})
    IN  [df |-> df, fx |-> rates, out |-> with_amount_usd(merged)]

Rec(m, e, c, a, cur, missing) ==
    [month |-> m, entity |-> e, account_category |-> c, amount |-> a,
     currency |-> cur, na |-> missing]

Fx(m, cur, r, missing) ==
    [month |-> m, currency |-> cur, rate_to_usd |-> r, na |-> missing]

NoMonth == <<0, 0>>

ConvertRecords ==
    {Rec(M1, "ParentCo", <<"Revenue">>, 5, "EUR", {}),
     Rec(M2, "ParentCo", <<"Revenue">>, -7, "EUR", {}),
     Rec(M1, "ParentCo", <<"Revenue">>, 5, "USD", {}),
     Rec(M1, "ParentCo", <<"Revenue">>, -3, "GBP", {}),
     Rec(NoMonth, "ParentCo", <<"Revenue">>, 5, "EUR", {"month"}),
     Rec(M1, "ParentCo", <<"Revenue">>, 5, "", {"currency"}),
     Rec(M1, "ParentCo", <<"Revenue">>, 0, "EUR", {"amount"})}

ConvertRates ==
    {Fx(M1, "EUR", 2, {}), Fx(M1, "EUR", 3, {}), Fx(M2, "EUR", 2, {}),
     Fx(M1, "USD", 1, {}),
     Fx(NoMonth, "EUR", 2, {"month"}), Fx(M1, "", 2, {"currency"}),
     Fx(M1, "EUR", 0, {"rate_to_usd"})}

InitConvert ==
    /\ question = <<>>
    /\ month = NoMonth
    /\ entity = "ParentCo"
    /\ actuals \in SeqsUpTo(ConvertRecords, MaxRows)
    /\ budget = <<>>
    /\ fx \in SeqsUpTo(ConvertRates, MaxFxRows)
    /\ cash = [is_none |-> TRUE, rows |-> <<>>]
    /\ op = "init"
    /\ ret = NoRet
    /\ called = {}

ConvertToUsd ==
    /\ op = "init"
    /\ LET r == convert_to_usd(actuals, fx) IN
        /\ actuals' = r.df
        /\ fx' = r.fx
        /\ ret' = [raised |-> FALSE, kind |-> "table", out |-> r.out]
    /\ op' = "convert_to_usd"
    /\ UNCHANGED <<question, month, entity, budget, cash, called>>

NextConvert == ConvertToUsd

SpecConvert == InitConvert /\ [][NextConvert]_vars

\* the FX rows a record can be converted with: complete, same month and currency
CompleteRates(rates, r) ==
    {j \in 1..Len(rates) :
        /\ rates[j].na = {}
        /\ rates[j].month = r.month
        /\ rates[j].currency = r.currency}

Convertible(rates, r) ==
    /\ r.na \cap {"month", "currency", "amount"} = {}
    /\ CompleteRates(rates, r) # {}

\* out row o is input record r with the two new columns
SameRecord(o, r) ==
    /\ o.month = r.month
    /\ o.entity = r.entity
    /\ o.account_category = r.account_category
    /\ o.amount = r.amount
    /\ o.currency = r.currency

\* C2: convert_to_usd returns exactly the records with month, currency and
\* amount present and a complete FX row of the same (month, currency), each
\* with a non-null amount_usd = amount * rate_to_usd of such an FX row; all
\* other records are dropped and nothing is raised.
C2_ExactlyConvertible ==
    op = "convert_to_usd" =>
        LET want == SelectSeq(actuals, LAMBDA r : Convertible(fx, r))
        IN  /\ ~ret.raised
            /\ Len(ret.out) = Len(want)
            /\ \A k \in 1..Len(ret.out) :
                  /\ SameRecord(ret.out[k], want[k])
                  /\ "amount_usd" \notin ret.out[k].na
                  /\ \E j \in CompleteRates(fx, want[k]) :
                        ret.out[k].amount_usd = want[k].amount * fx[j].rate_to_usd

\* C2 witness: a call that converted one record and dropped another.
C2_Witness ==
    /\ op = "convert_to_usd"
    /\ Len(actuals) = 2
    /\ Len(ret.out) = 1
    /\ ret.out[1].amount_usd = 10
    /\ \E i \in 1..2 : actuals[i].na = {} /\ ~Convertible(fx, actuals[i])

\* C7: FX rows missing month, currency or rate are discarded first, and of
\* the remaining rows with one (month, currency) the first in input order is
\* the rate of every record with that pair; no input record yields more
\* than one output record.
C7_FirstRateWins ==
    op = "convert_to_usd" =>
        /\ \A k \in 1..Len(ret.out) :
              LET js == CompleteRates(fx, ret.out[k])
                  first == CHOOSE j \in js : \A i \in js : j <= i
              IN  /\ js # {}
                  /\ ret.out[k].rate_to_usd = fx[first].rate_to_usd
                  /\ ret.out[k].amount_usd = ret.out[k].amount * fx[first].rate_to_usd
        /\ Len(ret.out) <= Len(actuals)

\* C7 witness: an incomplete FX row and two complete rows with different
\* rates for one pair, and a record converted with the first complete one.
C7_Witness ==
    /\ op = "convert_to_usd"
    /\ fx = <<Fx(M1, "EUR", 0, {"rate_to_usd"}), Fx(M1, "EUR", 3, {}), Fx(M1, "EUR", 2, {})>>
    /\ Len(ret.out) = 1
    /\ ret.out[1].rate_to_usd = 3


(***************************************************************************)
(* tools.py: the metric functions.  Each returns the caller's tables as    *)
(* the call leaves them and ret, the (text, fig) pair or the exception.    *)
(* Floats that may be NaN or a quotient are records: Num(v), NaN,          *)
(* Quot(n, d) (d = 0 is the IEEE quotient inf or nan, not an exception).   *)
(***************************************************************************)
Num(v) == [nan |-> FALSE, num |-> v, den |-> 1]
NaN == [nan |-> TRUE, num |-> 0, den |-> 1]
Quot(n, d) == [nan |-> FALSE, num |-> n, den |-> d]

Raise(exc) == [raised |-> TRUE, kind |-> exc]
Response(text, chart) == [raised |-> FALSE, kind |-> "response", text |-> text, chart |-> chart]
NoChart == [kind |-> "None"]

REVENUE == <<"Revenue">>
COGS == <<"COGS">>

\* str.startswith
startswith(s, prefix) ==
    Len(s) >= Len(prefix) /\ SubSeq(s, 1, Len(prefix)) = prefix

\* df[mask]["amount_usd"].sum(): 0 over no rows
sum_amount_usd(rows) == SumSeq([i \in 1..Len(rows) |-> rows[i].amount_usd])

MonthLE(a, b) == a[1] < b[1] \/ (a[1] = b[1] /\ a[2] <= b[2])

\* the distinct months in ascending order of the month string
RECURSIVE sorted_months(_)
sorted_months(S) ==
    IF S = {} THEN <<>>
    ELSE LET m == CHOOSE x \in S : \A y \in S : MonthLE(x, y)
         IN  <<m>> \o sorted_months(S \ {m})

get_revenue_vs_budget(mon, ent, act, bud, rates) ==
    LET a == convert_to_usd(act, rates)
        b == convert_to_usd(bud, a.fx)
        actual_rev == sum_amount_usd(SelectSeq(a.out, LAMBDA r :
            r.month = mon /\ r.entity = ent /\ r.account_category = REVENUE))
        budget_rev == sum_amount_usd(SelectSeq(b.out, LAMBDA r :
            r.month = mon /\ r.entity = ent /\ r.account_category = REVENUE))
    IN  [actuals |-> a.df, budget |-> b.df, fx |-> b.fx,
         ret |-> Response(
            [tmpl |-> "Revenue in {month} for {entity}: Actual ${a} vs Budget ${b}",
             month |-> mon, entity |-> ent, a |-> actual_rev, b |-> budget_rev],
            [kind |-> "bar", x |-> <<"Actual", "Budget">>,
             y |-> <<actual_rev, budget_rev>>])]

\* df.pivot_table(index="month", columns="account_category",
\*                values="amount_usd", aggfunc="sum").reset_index():
\* one row per month in ascending order, one column per category present,
\* NaN where a month has no row of the category.  No row, no column.
pivot_table(rows) ==
    LET months == {rows[i].month : i \in 1..Len(rows)}
        cats == {rows[i].account_category : i \in 1..Len(rows)}
    IN  [index |-> sorted_months(months),
         columns |-> cats,
         cell |-> [m \in months |-> [c \in cats |->
            LET g == SelectSeq(rows, LAMBDA r : r.month = m /\ r.account_category = c)
            IN  IF g = <<>> THEN NaN ELSE Num(sum_amount_usd(g))]]]

get_gross_margin_trend1(act, rates, ent) ==
    LET a == convert_to_usd(act, rates)
        df_usd == SelectSeq(a.out, LAMBDA r : r.entity = ent)
        pivot == pivot_table(df_usd)
        pct(m) ==
            LET rev == pivot.cell[m][REVENUE]
                cogs == pivot.cell[m][COGS]
            IN  IF rev.nan \/ cogs.nan THEN NaN
                ELSE Quot((rev.num - cogs.num) * 100, rev.num)
    IN  [actuals |-> a.df, fx |-> a.fx,
         ret |-> IF REVENUE \notin pivot.columns \/ COGS \notin pivot.columns
                 THEN Raise("KeyError")
                 ELSE Response(
                    [tmpl |-> "Gross Margin % Trend for {entity}:", entity |-> ent],
                    [kind |-> "line", x |-> pivot.index,
                     y |-> [i \in 1..Len(pivot.index) |-> pct(pivot.index[i])]])]

get_opex_breakdown1(mon, ent, act, rates) ==
    LET a == convert_to_usd(act, rates)
        opex_df == SelectSeq(a.out, LAMBDA r :
            r.month = mon /\ r.entity = ent /\ startswith(r.account_category, <<"Opex">>))
        cats == {opex_df[i].account_category : i \in 1..Len(opex_df)}
        opex_summary == [c \in cats |->
            sum_amount_usd(SelectSeq(opex_df, LAMBDA r : r.account_category = c))]
    IN  [actuals |-> a.df, fx |-> a.fx,
         ret |-> Response(
            [tmpl |-> "Opex breakdown for {month} ({entity}):",
             month |-> mon, entity |-> ent, lines |-> opex_summary],
            [kind |-> "bar", x |-> cats, y |-> opex_summary])]

get_ebitda_trend(act, rates, ent) ==
    LET a == convert_to_usd(act, rates)
        df_usd == SelectSeq(a.out, LAMBDA r : r.entity = ent)
        pivot == pivot_table(df_usd)
        opex_cols == {c \in pivot.columns : startswith(c, <<"Opex">>)}
        \* DataFrame.sum(axis=1) skips NaN
        RECURSIVE row_sum(_, _)
        row_sum(m, cols) ==
            IF cols = {} THEN 0
            ELSE LET c == CHOOSE x \in cols : TRUE
                     v == pivot.cell[m][c]
                 IN  (IF v.nan THEN 0 ELSE v.num) + row_sum(m, cols \ {c})
        ebitda(m) ==
            LET rev == pivot.cell[m][REVENUE]
                cogs == pivot.cell[m][COGS]
            IN  IF rev.nan \/ cogs.nan THEN NaN
                ELSE Num(rev.num - cogs.num - row_sum(m, opex_cols))
    IN  [actuals |-> a.df, fx |-> a.fx,
         ret |-> IF REVENUE \notin pivot.columns \/ COGS \notin pivot.columns
                 THEN Raise("KeyError")
                 ELSE Response(
                    [tmpl |-> "EBITDA trend for {entity} over time.", entity |-> ent],
                    [kind |-> "line", x |-> pivot.index,
                     y |-> [i \in 1..Len(pivot.index) |-> ebitda(pivot.index[i])]])]

\* A faulty variant: Opex matched by equality, not by prefix.
compute_ebitda_exact_opex(df) ==
    LET revenue == sum_amount_usd(SelectSeq(df, LAMBDA r : r.account_category = REVENUE))
        cogs == sum_amount_usd(SelectSeq(df, LAMBDA r : r.account_category = COGS))
        opex == sum_amount_usd(SelectSeq(df, LAMBDA r : r.account_category = <<"Opex">>))
    IN  revenue - cogs - opex

compute_ebitda(df) ==
    LET revenue == sum_amount_usd(SelectSeq(df, LAMBDA r : r.account_category = REVENUE))
        cogs == sum_amount_usd(SelectSeq(df, LAMBDA r : r.account_category = COGS))
        opex == sum_amount_usd(SelectSeq(df, LAMBDA r : startswith(r.account_category, <<"Opex">>)))
    IN  revenue - cogs - opex

get_ebitda_vs_budget(mon, ent, act, bud, rates) ==
    LET au == convert_to_usd(act, rates)
        bu == convert_to_usd(bud, au.fx)
        a == SelectSeq(au.out, LAMBDA r : r.month = mon /\ r.entity = ent)
        b == SelectSeq(bu.out, LAMBDA r : r.month = mon /\ r.entity = ent)
        actual_ebitda == compute_ebitda(a)
        budget_ebitda == compute_ebitda(b)
    IN  [actuals |-> au.df, budget |-> bu.df, fx |-> bu.fx,
         ret |-> Response(
            [tmpl |-> "EBITDA in {month} for {entity}: Actual ${a} vs Budget ${b}",
             month |-> mon, entity |-> ent, a |-> actual_ebitda, b |-> budget_ebitda],
            [kind |-> "bar", x |-> <<"Actual", "Budget">>,
             y |-> <<actual_ebitda, budget_ebitda>>])]


Inf == Quot(1, 0)

\* tail(3): the months averaged
BurnWindow == 3

\* the last n elements of a sequence
tail(s, n) == IF Len(s) <= n THEN s ELSE SubSeq(s, Len(s) - n + 1, Len(s))

\* rows.sort_values("month").iloc[-1]["cash_usd"]: the default sort is not
\* stable, so with several rows of the greatest month any of them may come last
last_by_month(rows) ==
    {rows[i].cash_usd : i \in {k \in 1..Len(rows) :
        \A j \in 1..Len(rows) : MonthLE(rows[j].month, rows[k].month)}}

\* the values latest_cash may take
latest_cash(cash_rows, ent) ==
    LET cash_clean == dropna(cash_rows, {"month", "entity", "cash_usd"})
        entity_cash == SelectSeq(cash_clean, LAMBDA r : r.entity = ent)
    IN  IF Len(entity_cash) > 0 THEN last_by_month(entity_cash)
        ELSE IF Len(cash_clean) = 0 THEN {0}
        ELSE last_by_month(cash_clean)

\* df_usd["is_opex"] = df_usd["account_category"].str.startswith("Opex"),
\* set on the entity's rows (a new frame made by the boolean filter)
with_is_opex(rows) ==
    [i \in 1..Len(rows) |->
        LET r == rows[i]
        IN  [month |-> r.month, entity |-> r.entity,
             account_category |-> r.account_category, amount |-> r.amount,
             currency |-> r.currency, rate_to_usd |-> r.rate_to_usd,
             amount_usd |-> r.amount_usd, na |-> r.na,
             is_opex |-> startswith(r.account_category, <<"Opex">>)]]

\* the monthly frame: one row per month of df_usd, ascending
monthly_burn(df_usd) ==
    LET idx == sorted_months({df_usd[i].month : i \in 1..Len(df_usd)})
    IN  [k \in 1..Len(idx) |->
            LET g == SelectSeq(df_usd, LAMBDA r : r.month = idx[k])
                Revenue == sum_amount_usd(SelectSeq(g, LAMBDA r : r.account_category = REVENUE))
                Cogs == sum_amount_usd(SelectSeq(g, LAMBDA r : r.account_category = COGS))
                Opex == sum_amount_usd(SelectSeq(g, LAMBDA r : r.is_opex))
            IN  [month |-> idx[k], Revenue |-> Revenue, COGS |-> Cogs, Opex |-> Opex,
                 NetBurn |-> Cogs + Opex - Revenue]]

\* A faulty variant: the first three months instead of the last three.
avg_burn_head(monthly) ==
    LET last3 == IF Len(monthly) <= BurnWindow THEN monthly ELSE SubSeq(monthly, 1, BurnWindow)
    IN  Quot(SumSeq([i \in 1..Len(last3) |-> last3[i].NetBurn]), Len(last3))

\* monthly.sort_values("month").tail(3)["NetBurn"].mean()
avg_burn(monthly) ==
    LET last3 == tail(monthly, BurnWindow)
    IN  Quot(SumSeq([i \in 1..Len(last3) |-> last3[i].NetBurn]), Len(last3))

\* get_cash_runway: the set of outcomes the call may have.  With no row of
\* the entity, groupby("month").apply(...) calls the lambda for no group and
\* yields a frame without the columns Revenue, COGS and Opex: building
\* NetBurn raises.
get_cash_runway(cash_rows, act, rates, ent) ==
    LET a == convert_to_usd(act, rates)
        df_usd == with_is_opex(SelectSeq(a.out, LAMBDA r : r.entity = ent))
        monthly == monthly_burn(df_usd)
        avg == avg_burn(monthly)
        outcome(cash_now) ==
            LET runway_months == IF avg.num > 0 THEN Quot(cash_now * avg.den, avg.num) ELSE Inf
            IN  Response(
                    [tmpl |-> "Cash Runway for {entity}: {n} months (latest cash ${c}, avg burn ${b}/month)",
                     entity |-> ent, runway_months |-> runway_months,
                     latest_cash |-> cash_now, avg_burn |-> avg],
                    [kind |-> "line", x |-> [i \in 1..Len(monthly) |-> monthly[i].month],
                     y |-> [i \in 1..Len(monthly) |-> monthly[i].NetBurn]])
    IN  {[cash |-> cash_rows, actuals |-> a.df, fx |-> a.fx, ret |-> r] :
            r \in IF df_usd = <<>> THEN {Raise("KeyError")}
                  ELSE {outcome(c) : c \in latest_cash(cash_rows, ent)}}


(***************************************************************************)
(* agent.py: parse_month_year and run_agent.                               *)
(***************************************************************************)
None == <<>>

\* %B, matched without regard to case: the month's number, 0 for no month name
month_number(w) ==
    LET l == lower_word(w) IN
    CASE l = "january" -> 1 [] l = "february" -> 2 [] l = "march" -> 3
      [] l = "april" -> 4 [] l = "may" -> 5 [] l = "june" -> 6
      [] l = "july" -> 7 [] l = "august" -> 8 [] l = "september" -> 9
      [] l = "october" -> 10 [] l = "november" -> 11 [] l = "december" -> 12
      [] OTHER -> 0

\* \d{4} at the start of a word: the four digits' value, -1 when the word
\* does not start with four digits
four_digits(w) ==
    CASE w = "2024" -> 2024
      [] w = "20245" -> 2024
      [] w = "0000" -> 0
      [] OTHER -> -1

\* re.search(r"(January|...|December) \d{4}", question, re.IGNORECASE):
\* the index of the first match, 0 for no match
month_match(text) ==
    LET hits == {i \in 1..(Len(text) - 1) :
                    month_number(text[i]) # 0 /\ four_digits(text[i + 1]) >= 0}
    IN  IF hits = {} THEN 0 ELSE CHOOSE i \in hits : \A j \in hits : i <= j

\* parse_month_year on the matched "<month> <4 digits>": strptime raises
\* ValueError for the year 0000, which is caught and gives None
parse_month_year(name, digits) ==
    IF month_number(name) = 0 \/ four_digits(digits) < 1 THEN None
    ELSE <<four_digits(digits), month_number(name)>>

extract_month(text) ==
    LET i == month_match(text)
    IN  IF i = 0 THEN None ELSE parse_month_year(text[i], text[i + 1])

Msg(t) == [tmpl |-> t]

Given(rows) == [is_none |-> FALSE, rows |-> rows]
NoTable == [is_none |-> TRUE, rows |-> <<>>]

\* one outcome of run_agent: the caller's tables as the call leaves them,
\* the month extracted, the value returned and the metric functions invoked
Outcome(act, bud, rates, csh, mon, r, fns) ==
    [actuals |-> act, budget |-> bud, fx |-> rates, cash |-> csh,
     month |-> mon, ret |-> r, called |-> fns]

\* A faulty variant: the month is never found missing.
not_month_never(mon) == FALSE

\* if not month
not_month(mon) == mon = None

\* A faulty variant: the cash table is never found missing.
cash_is_none_never(csh) == FALSE

\* if cash is None
cash_is_none(csh) == csh.is_none

run_agent(text, act, bud, rates, csh, default_entity) ==
    LET intent == classify_intent(text)
        mon == extract_month(text)
        same(r, fns) == {Outcome(act, bud, rates, csh, mon, r, fns)}
    IN  IF intent = "unknown"
        THEN same(Response(Msg("Sorry, I could not understand the question."), NoChart), {})
        ELSE IF intent = "revenue_vs_budget"
        THEN IF not_month(mon)
             THEN same(Response(Msg("Please specify the month (e.g., June 2024) for Revenue vs Budget."), NoChart), {})
             ELSE LET o == get_revenue_vs_budget(mon, default_entity, act, bud, rates)
                  IN  {Outcome(o.actuals, o.budget, o.fx, csh, mon, o.ret, {"get_revenue_vs_budget"})}
        ELSE IF intent = "gross_margin_trend"
        THEN LET o == get_gross_margin_trend1(act, rates, default_entity)
             IN  {Outcome(o.actuals, bud, o.fx, csh, mon, o.ret, {"get_gross_margin_trend1"})}
        ELSE IF intent = "opex_breakdown"
        THEN IF not_month(mon)
             THEN same(Response(Msg("Please specify the month (e.g., June 2024) for Opex breakdown."), NoChart), {})
             ELSE LET o == get_opex_breakdown1(mon, default_entity, act, rates)
                  IN  {Outcome(o.actuals, bud, o.fx, csh, mon, o.ret, {"get_opex_breakdown1"})}
        ELSE IF intent = "ebitda_trend"
        THEN LET o == get_ebitda_trend(act, rates, default_entity)
             IN  {Outcome(o.actuals, bud, o.fx, csh, mon, o.ret, {"get_ebitda_trend"})}
        ELSE IF intent = "ebitda_vs_budget"
        THEN IF not_month(mon)
             THEN same(Response(Msg("Please specify the month (e.g., June 2024) for EBITDA vs Budget."), NoChart), {})
             ELSE LET o == get_ebitda_vs_budget(mon, default_entity, act, bud, rates)
                  IN  {Outcome(o.actuals, o.budget, o.fx, csh, mon, o.ret, {"get_ebitda_vs_budget"})}
        ELSE IF intent = "cash_runway"
        THEN IF cash_is_none(csh)
             THEN same(Response(Msg("Cash data not provided."), NoChart), {})
             ELSE {Outcome(o.actuals, bud, o.fx, [csh EXCEPT !.rows = o.cash], mon, o.ret,
                           {"get_cash_runway"}) :
                     o \in get_cash_runway(csh.rows, act, rates, default_entity)}
        ELSE same(Response(Msg("Intent not implemented."), NoChart), {})


(***************************************************************************)
(* The tables the metric functions and the orchestrator are run on: a      *)
(* table is a concatenation of blocks, a block the rows of one month.      *)
(***************************************************************************)
OPEX_MKT == <<"Opex", ":Marketing">>
OPEX_SALES == <<"Opex", ":Sales">>
LOWER_OPEX == <<"opex", ":IT">>

Blocks(m) ==
    {<<Rec(m, "ParentCo", REVENUE, 5, "EUR", {})>>,
     <<Rec(m, "ParentCo", COGS, 2, "EUR", {}), Rec(m, "ParentCo", REVENUE, 4, "EUR", {})>>,
     <<Rec(m, "ParentCo", OPEX_MKT, 1, "EUR", {}), Rec(m, "ParentCo", OPEX_SALES, 4, "EUR", {}),
       Rec(m, "ParentCo", COGS, 2, "EUR", {})>>,
     <<Rec(m, "ParentCo", REVENUE, 9, "EUR", {}), Rec(m, "ParentCo", COGS, 2, "EUR", {}),
       Rec(m, "ParentCo", OPEX_MKT, 1, "EUR", {}), Rec(m, "ParentCo", LOWER_OPEX, 3, "EUR", {}),
       Rec(m, "ParentCo", OPEX_MKT, 2, "EUR", {})>>,
     <<Rec(m, "SubCo", REVENUE, 7, "EUR", {}), Rec(m, "SubCo", OPEX_SALES, 1, "EUR", {})>>,
     <<Rec(m, "ParentCo", REVENUE, 5, "GBP", {}), Rec(m, "ParentCo", COGS, 0, "EUR", {"amount"})>>}

RECURSIVE Concat(_)
Concat(ss) == IF ss = <<>> THEN <<>> ELSE Head(ss) \o Concat(Tail(ss))

MetricTables(n) == {Concat(bs) : bs \in SeqsUpTo(Blocks(M1) \cup Blocks(M2), n)}

BudgetTables ==
    {<<>>,
     <<Rec(M2, "ParentCo", REVENUE, 3, "EUR", {})>>,
     <<Rec(M2, "ParentCo", REVENUE, 6, "EUR", {}), Rec(M2, "ParentCo", COGS, 1, "EUR", {}),
       Rec(M2, "ParentCo", OPEX_SALES, 2, "EUR", {}), Rec(M1, "ParentCo", REVENUE, 8, "EUR", {})>>,
     <<Rec(M2, "SubCo", REVENUE, 3, "EUR", {}), Rec(M1, "ParentCo", OPEX_MKT, 2, "EUR", {})>>}

RateTables ==
    {<<Fx(M1, "EUR", 2, {}), Fx(M2, "EUR", 3, {}), Fx(M1, "EUR", 5, {})>>,
     <<Fx(M1, "EUR", 2, {})>>}

Cash(m, e, c, missing) == [month |-> m, entity |-> e, cash_usd |-> c, na |-> missing]

CashRecords ==
    {Cash(M1, "ParentCo", 10, {}), Cash(M2, "ParentCo", 20, {}), Cash(M2, "ParentCo", 30, {}),
     Cash(M2, "SubCo", 40, {}), Cash(<<2024, 7>>, "ParentCo", 0, {"cash_usd"})}

InitMetrics ==
    /\ question = <<>>
    /\ month = M2
    /\ entity = "ParentCo"
    /\ actuals \in MetricTables(MaxBlocks)
    /\ budget \in BudgetTables
    /\ fx \in RateTables
    /\ cash = Given(<<Cash(M2, "SubCo", 40, {})>>)
    /\ op = "init"
    /\ ret = NoRet
    /\ called = {}

GetRevenueVsBudget ==
    /\ op = "init"
    /\ LET o == get_revenue_vs_budget(month, entity, actuals, budget, fx) IN
        /\ actuals' = o.actuals /\ budget' = o.budget /\ fx' = o.fx /\ ret' = o.ret
    /\ op' = "get_revenue_vs_budget"
    /\ UNCHANGED <<question, month, entity, cash, called>>

GetGrossMarginTrend1 ==
    /\ op = "init"
    /\ LET o == get_gross_margin_trend1(actuals, fx, entity) IN
        /\ actuals' = o.actuals /\ fx' = o.fx /\ ret' = o.ret
    /\ op' = "get_gross_margin_trend1"
    /\ UNCHANGED <<question, month, entity, budget, cash, called>>

GetOpexBreakdown1 ==
    /\ op = "init"
    /\ LET o == get_opex_breakdown1(month, entity, actuals, fx) IN
        /\ actuals' = o.actuals /\ fx' = o.fx /\ ret' = o.ret
    /\ op' = "get_opex_breakdown1"
    /\ UNCHANGED <<question, month, entity, budget, cash, called>>

GetEbitdaTrend ==
    /\ op = "init"
    /\ LET o == get_ebitda_trend(actuals, fx, entity) IN
        /\ actuals' = o.actuals /\ fx' = o.fx /\ ret' = o.ret
    /\ op' = "get_ebitda_trend"
    /\ UNCHANGED <<question, month, entity, budget, cash, called>>

GetEbitdaVsBudget ==
    /\ op = "init"
    /\ LET o == get_ebitda_vs_budget(month, entity, actuals, budget, fx) IN
        /\ actuals' = o.actuals /\ budget' = o.budget /\ fx' = o.fx /\ ret' = o.ret
    /\ op' = "get_ebitda_vs_budget"
    /\ UNCHANGED <<question, month, entity, cash, called>>

GetCashRunway ==
    /\ op = "init"
    /\ ~cash.is_none
    /\ \E o \in get_cash_runway(cash.rows, actuals, fx, entity) :
        /\ actuals' = o.actuals /\ fx' = o.fx /\ cash' = Given(o.cash) /\ ret' = o.ret
    /\ op' = "get_cash_runway"
    /\ UNCHANGED <<question, month, entity, budget, called>>

NextMetrics ==
    \/ GetRevenueVsBudget
    \/ GetGrossMarginTrend1
    \/ GetOpexBreakdown1
    \/ GetEbitdaTrend
    \/ GetEbitdaVsBudget
    \/ GetCashRunway

SpecMetrics == InitMetrics /\ [][NextMetrics]_vars


(***************************************************************************)
(* get_cash_runway on longer histories: one block per month 1..MaxMonths,  *)
(* the table in ascending or in descending order of month.                 *)
(***************************************************************************)
Mth(k) == <<2024, k>>

RunwayBlocks(m) ==
    << <<>>,
       <<Rec(m, "ParentCo", REVENUE, 3, "USD", {})>>,
       <<Rec(m, "ParentCo", COGS, 2, "USD", {}), Rec(m, "ParentCo", OPEX_MKT, 1, "USD", {})>>,
       <<Rec(m, "SubCo", COGS, 5, "USD", {})>> >>

RunwayTables ==
    LET up == {Concat([k \in 1..MaxMonths |-> RunwayBlocks(Mth(k))[f[k]]]) :
                  f \in [1..MaxMonths -> 1..4]}
    IN  up \cup {Reverse(t) : t \in up}

RunwayRates == [k \in 1..MaxMonths |-> Fx(Mth(k), "USD", 1, {})]

InitRunway ==
    /\ question = <<>>
    /\ month = None
    /\ entity = "ParentCo"
    /\ actuals \in RunwayTables
    /\ budget = <<>>
    /\ fx = RunwayRates
    /\ cash \in {Given(c) : c \in SeqsUpTo(CashRecords, MaxCashRows)}
    /\ op = "init"
    /\ ret = NoRet
    /\ called = {}

NextRunway == GetCashRunway

SpecRunway == InitRunway /\ [][NextRunway]_vars

(***************************************************************************)
(* The application: the tables are loaded once, then every question runs   *)
(* run_agent on them with the default entity.                              *)
(***************************************************************************)
IntentPhrases ==
    {<<"Revenue", "budget">>, <<"Gross", "margin">>, <<"OPEX">>, <<"ebitda">>,
     <<"EBITDA", "budget">>, <<"cash", "runway">>, <<"profit">>, <<"cash">>}

MonthPhrases ==
    {<<>>, <<"June", "2024">>, <<"may", "20245">>, <<"June", "0000">>, <<"June">>}

AgentQuestions == {i \o m : i \in IntentPhrases, m \in MonthPhrases}

AgentActuals ==
    {<<>>} \cup Blocks(M2)
        \cup {<<Rec(M1, "ParentCo", REVENUE, 5, "EUR", {}), Rec(M1, "ParentCo", COGS, 2, "EUR", {}),
                Rec(M2, "ParentCo", OPEX_MKT, 4, "EUR", {}), Rec(M2, "ParentCo", COGS, 6, "EUR", {})>>}

Init ==
    /\ question = <<>>
    /\ month = None
    /\ entity = "ParentCo"
    /\ actuals \in AgentActuals
    /\ budget \in BudgetTables
    /\ fx \in RateTables
    /\ cash \in {NoTable, Given(<<>>), Given(<<Cash(M1, "ParentCo", 10, {}), Cash(M2, "SubCo", 40, {})>>)}
    /\ op = "init"
    /\ ret = NoRet
    /\ called = {}

RunAgent ==
    \E q \in AgentQuestions :
        \E o \in run_agent(q, actuals, budget, fx, cash, entity) :
            /\ question' = q
            /\ month' = o.month
            /\ actuals' = o.actuals
            /\ budget' = o.budget
            /\ fx' = o.fx
            /\ cash' = o.cash
            /\ ret' = o.ret
            /\ called' = o.called
            /\ op' = "run_agent"
            /\ UNCHANGED entity

Next == RunAgent

Spec == Init /\ [][Next]_vars


(***************************************************************************)
(* What the claims speak of, stated on the caller's tables.                *)
(***************************************************************************)
\* the rate a record converts with: that of the first complete FX row of
\* its month and currency
FirstRate(rates, r) ==
    LET js == CompleteRates(rates, r)
    IN  rates[CHOOSE j \in js : \A i \in js : j <= i].rate_to_usd

\* the records of a table that normalize, of one entity
NormalizedOf(table, rates, ent) ==
    SelectSeq(table, LAMBDA r : Convertible(rates, r) /\ r.entity = ent)

BeginsWithOpex(c) == c # <<>> /\ c[1] = "Opex"

\* the sum of amount * rate over the records of rows that satisfy Test
UsdTotal(rows, rates, Test(_)) ==
    LET sel == SelectSeq(rows, Test)
    IN  SumSeq([i \in 1..Len(sel) |-> sel[i].amount * FirstRate(rates, sel[i])])

\* Revenue - COGS - all Opex-prefixed categories, of a list of records
Ebitda(rows, rates) ==
    UsdTotal(rows, rates, LAMBDA r : r.account_category = REVENUE)
        - UsdTotal(rows, rates, LAMBDA r : r.account_category = COGS)
        - UsdTotal(rows, rates, LAMBDA r : BeginsWithOpex(r.account_category))

IsPrompt(r, t) ==
    /\ ~r.raised
    /\ r.kind = "response"
    /\ r.text = Msg(t)
    /\ r.chart = NoChart

\* C3: with intent revenue_vs_budget, opex_breakdown or ebitda_vs_budget and
\* no month extracted, run_agent returns the text asking for the month and
\* no chart, invokes no metric function and does not raise.
C3_MonthPrompt ==
    (op = "run_agent" /\ month = None) =>
        /\ FirstMatch(question) = "revenue_vs_budget" =>
              /\ IsPrompt(ret, "Please specify the month (e.g., June 2024) for Revenue vs Budget.")
              /\ called = {}
        /\ FirstMatch(question) = "opex_breakdown" =>
              /\ IsPrompt(ret, "Please specify the month (e.g., June 2024) for Opex breakdown.")
              /\ called = {}
        /\ FirstMatch(question) = "ebitda_vs_budget" =>
              /\ IsPrompt(ret, "Please specify the month (e.g., June 2024) for EBITDA vs Budget.")
              /\ called = {}

\* C3 witness: an opex question whose month token does not parse, on tables
\* that hold data, answered with the prompt.
C3_Witness ==
    /\ op = "run_agent"
    /\ question = <<"OPEX", "June", "0000">>
    /\ month = None
    /\ actuals # <<>>
    /\ IsPrompt(ret, "Please specify the month (e.g., June 2024) for Opex breakdown.")

\* C4: run_agent returns the fixed "could not understand" text with no chart
\* when the intent is unknown, and "Cash data not provided." with no chart
\* when the intent is cash_runway and no cash table was given; no metric
\* function is invoked and nothing is raised.
C4_FixedMessages ==
    op = "run_agent" =>
        /\ FirstMatch(question) = "unknown" =>
              /\ IsPrompt(ret, "Sorry, I could not understand the question.")
              /\ called = {}
        /\ (FirstMatch(question) = "cash_runway" /\ cash.is_none) =>
              /\ IsPrompt(ret, "Cash data not provided.")
              /\ called = {}

\* C4 witness: a cash runway question without a cash table, on tables that
\* hold data.
C4_Witness ==
    /\ op = "run_agent"
    /\ question = <<"cash", "runway">>
    /\ cash.is_none
    /\ actuals # <<>>
    /\ IsPrompt(ret, "Cash data not provided.")

\* C6: no run_agent call changes the caller's actuals, budget, fx or cash
\* table: no row and no column is added, removed or altered.
C6_TablesUnchanged ==
    [][/\ actuals' = actuals
       /\ budget' = budget
       /\ fx' = fx
       /\ cash' = cash]_vars

\* C6 witness: a call that normalized the actuals and flagged Opex rows
\* (the cash runway) on a table with rows, after which the table has no
\* column amount_usd.
C6_Witness ==
    /\ op = "run_agent"
    /\ called = {"get_cash_runway"}
    /\ ~ret.raised
    /\ actuals # <<>>
    /\ \A i \in 1..Len(actuals) : "amount_usd" \notin DOMAIN actuals[i]


\* the normalized records of the month and entity asked for
SliceOf(table, rates, mon, ent) ==
    SelectSeq(NormalizedOf(table, rates, ent), LAMBDA r : r.month = mon)

HasCategory(rows, c) == \E i \in 1..Len(rows) : rows[i].account_category = c

\* C5: a metric function whose filtered normalized slice has no rows, or no
\* Revenue or no COGS rows, returns a (text, chart) pair with zero for the
\* missing sums and raises nothing; Revenue vs Budget with no matching rows
\* in both tables reports Actual 0 vs Budget 0.
C5_EmptySliceIsZero ==
    LET hist == NormalizedOf(actuals, fx, entity)
        a == SliceOf(actuals, fx, month, entity)
        b == SliceOf(budget, fx, month, entity)
    IN  /\ (op \in {"get_gross_margin_trend1", "get_ebitda_trend", "get_cash_runway"}
              /\ (~HasCategory(hist, REVENUE) \/ ~HasCategory(hist, COGS)))
            => ~ret.raised
        /\ (op \in {"get_revenue_vs_budget", "get_ebitda_vs_budget"} /\ a = <<>> /\ b = <<>>)
            => (~ret.raised /\ ret.text.a = 0 /\ ret.text.b = 0)
        /\ (op = "get_opex_breakdown1" /\ a = <<>>)
            => (~ret.raised /\ DOMAIN ret.text.lines = {})

\* the part of C5 the code satisfies: the three month-filtered metrics on
\* an empty slice
C5_MonthMetricsZero ==
    LET a == SliceOf(actuals, fx, month, entity)
        b == SliceOf(budget, fx, month, entity)
    IN  /\ (op \in {"get_revenue_vs_budget", "get_ebitda_vs_budget"} /\ a = <<>> /\ b = <<>>)
            => (~ret.raised /\ ret.text.a = 0 /\ ret.text.b = 0)
        /\ (op = "get_opex_breakdown1" /\ a = <<>>)
            => (~ret.raised /\ DOMAIN ret.text.lines = {})

\* C10: get_ebitda_vs_budget computes, for the actuals slice and for the
\* budget slice of the month and entity, Revenue - COGS - the sum over all
\* categories that begin with "Opex" (zero when there is none), raises
\* nothing, and each figure depends on its own table only.
C10_EbitdaPerSlice ==
    op = "get_ebitda_vs_budget" =>
        /\ ~ret.raised
        /\ ret.text.a = Ebitda(SliceOf(actuals, fx, month, entity), fx)
        /\ ret.text.b = Ebitda(SliceOf(budget, fx, month, entity), fx)
        /\ ret.chart.y = <<ret.text.a, ret.text.b>>

\* C10 witness: the actuals slice holds Revenue and two Opex categories, the
\* budget slice holds no Opex category, and the two figures differ.
C10_Witness ==
    /\ op = "get_ebitda_vs_budget"
    /\ LET a == SliceOf(actuals, fx, month, entity)
           b == SliceOf(budget, fx, month, entity)
       IN  /\ HasCategory(a, REVENUE)
           /\ HasCategory(a, OPEX_MKT)
           /\ HasCategory(a, OPEX_SALES)
           /\ b # <<>>
           /\ \A i \in 1..Len(b) : ~BeginsWithOpex(b[i].account_category)
    /\ ret.text.a # ret.text.b
    /\ ret.text.a < 0

\* the months of the entity's normalized actuals
MonthsOf(table, rates, ent) ==
    LET n == NormalizedOf(table, rates, ent) IN {n[i].month : i \in 1..Len(n)}

\* the (at most three) latest of a set of months
Latest3(ms) ==
    {m \in ms : Cardinality({x \in ms : x # m /\ MonthLE(m, x)}) < 3}

\* COGS + Opex - Revenue of one month
NetBurnOf(table, rates, ent, m) ==
    - Ebitda(SliceOf(table, rates, m, ent), rates)

RECURSIVE SumOver(_, _)
SumOver(S, f) ==
    IF S = {} THEN 0
    ELSE LET x == CHOOSE y \in S : TRUE IN f[x] + SumOver(S \ {x}, f)

\* C8: with at least one month in the entity's normalized actuals,
\* get_cash_runway reports as average burn the mean of COGS + Opex - Revenue
\* over the latest three months (over all of them when fewer than three),
\* as runway latest cash / average burn when the average is > 0, and an
\* infinite runway when the average is <= 0.
C8_RunwayFromLast3 ==
    LET ms == MonthsOf(actuals, fx, entity)
        last == Latest3(ms)
        total == SumOver(last, [m \in last |-> NetBurnOf(actuals, fx, entity, m)])
        n == Cardinality(last)
    IN  (op = "get_cash_runway" /\ ms # {}) =>
            /\ ~ret.raised
            /\ ret.text.avg_burn = Quot(total, n)
            /\ total > 0 => ret.text.runway_months = Quot(ret.text.latest_cash * n, total)
            /\ total <= 0 => ret.text.runway_months = Inf

\* C8 witness: four months of data, of which the latest three burn cash and
\* the earliest earns it, and a finite runway.
C8_Witness ==
    /\ op = "get_cash_runway"
    /\ ~ret.raised
    /\ Cardinality(MonthsOf(actuals, fx, entity)) = 4
    /\ NetBurnOf(actuals, fx, entity, Mth(1)) < 0
    /\ ret.text.avg_burn = Quot(9, 3)
    /\ ret.text.latest_cash = 30
    /\ ret.text.runway_months = Quot(90, 9)

\* the cash_usd values the claim allows as latest cash
ClaimedLatestCash(cash_rows, ent) ==
    LET complete == {i \in 1..Len(cash_rows) : cash_rows[i].na = {}}
        own == {i \in complete : cash_rows[i].entity = ent}
        pool == IF own # {} THEN own ELSE complete
    IN  IF pool = {} THEN {0}
        ELSE {cash_rows[i].cash_usd : i \in {k \in pool :
                \A j \in pool : MonthLE(cash_rows[j].month, cash_rows[k].month)}}

\* C9: the latest cash is the cash_usd of the entity's complete record of
\* the greatest month, else that of the complete record of the greatest
\* month of any entity, else 0, and no failure is raised in any of the
\* three cases.
C9_LatestCashNeverFails ==
    op = "get_cash_runway" =>
        /\ ~ret.raised
        /\ ret.text.latest_cash \in ClaimedLatestCash(cash.rows, entity)

\* the part of C9 the code satisfies: a call that returns reports the
\* claimed latest cash
C9_LatestCashWhenReturned ==
    (op = "get_cash_runway" /\ ~ret.raised) =>
        ret.text.latest_cash \in ClaimedLatestCash(cash.rows, entity)

=============================================================================
